---- MODULE Spec2Model ----
(***************************************************************************)
(* A model of example/c/simple.c: a GLUT program that creates a window,    *)
(* registers a reshape and a display callback, loads the OpenGL entry      *)
(* points through glad, checks the OpenGL 2.0 capability flag and enters   *)
(* the GLUT event loop.                                                    *)
(*                                                                         *)
(* Floating point arguments of the OpenGL calls are kept in tenths         *)
(* (1.0f is 10, 0.2f is 2, 0.7f is 7).  A printed line is a record of its  *)
(* printf format and its integer arguments.                                *)
(***************************************************************************)
EXTENDS Integers, Sequences, FiniteSets, TLC

VARIABLES
    pc,                  \* position of main
    width, height,       \* static int width, height
    windowSize,          \* size handed to glutInitWindowSize
    window,              \* TRUE once glutCreateWindow made the window/context
    reshapeFunc,         \* callback registered with glutReshapeFunc
    displayFunc,         \* callback registered with glutDisplayFunc
    version,             \* int version of main
    GLAD_GL_VERSION_2_0, \* glad's capability flag
    out,                 \* lines printed on standard output
    exitStatus,          \* <<>> while running, <<s>> once ended with status s
    queried,             \* names handed to glGetString
    viewport,            \* OpenGL context: viewport
    clearDepth,          \* OpenGL context: clear depth (tenths)
    clearColor,          \* OpenGL context: clear color (tenths)
    depthTest,           \* OpenGL context: GL_DEPTH_TEST enabled
    redisplay,           \* GLUT: a display callback is pending
    cleared,             \* the clear values used by each glClear of the last display
    frames,              \* glutSwapBuffers count, modulo FrameWrap
    lastEvent,           \* the callback dispatched last
    prevEvent,           \* the callback dispatched before the last
    lastArgs,            \* the arguments of the last reshape
    lastCalls,           \* the library calls made by the last callback, in order
    flagRead,            \* TRUE once GLAD_GL_VERSION_2_0 has been read
    dimReaders,          \* the functions that have read width or height
    dimWriters           \* the functions that have written width or height

vars == <<pc, width, height, windowSize, window, reshapeFunc, displayFunc,
          version, GLAD_GL_VERSION_2_0, out, exitStatus, queried, viewport,
          clearDepth, clearColor, depthTest, redisplay, cleared, frames,
          lastEvent, prevEvent, lastArgs, lastCalls, flagRead, dimReaders,
          dimWriters>>

mainVars == <<pc, windowSize, window, reshapeFunc, displayFunc, version,
              GLAD_GL_VERSION_2_0, out, exitStatus, queried, flagRead>>

(***************************************************************************)
(* Bounds of the model.                                                    *)
(***************************************************************************)
\* reshape arguments range over -MaxDim .. MaxDim
MaxDim == 2
\* the loader returns a version in 0 .. MaxVersion
MaxVersion == 46
\* the swap counter wraps at FrameWrap
FrameWrap == 3

Dims == (-MaxDim) .. MaxDim
Versions == 0 .. MaxVersion

(***************************************************************************)
(* Program constants.                                                      *)
(***************************************************************************)
InitialSize == 600
ClearDepthOne == 10

Pink == <<10, 2, 7, 10>>
TransparentBlack == <<0, 0, 0, 0>>

LoaderDiagnostic == [fmt |-> "Something went wrong!", args |-> <<>>]
CapabilityDiagnostic ==
    [fmt |-> "Your system doesn't support OpenGL >= 2!", args |-> <<>>]
DriverLine == [fmt |-> "OpenGL %s, GLSL %s", args |-> <<>>]

\* C's int division and remainder: truncation toward zero
CDiv(a, b) ==
    IF a >= 0 THEN a \div b ELSE -((-a) \div b)
CMod(a, b) ==
    a - b * CDiv(a, b)

VersionLineWrongBase(v) ==
    [fmt |-> "OpenGL %d.%d", args |-> <<CDiv(v, 100), CMod(v, 100)>>]
\* printf("OpenGL %d.%d\n", version / 10, version % 10)
VersionLine(v) ==
    [fmt |-> "OpenGL %d.%d", args |-> <<CDiv(v, 10), CMod(v, 10)>>]

ClampToZero(x) ==
    IF x > 1 THEN x ELSE 0
\* w > 1 ? w : 1
Clamp(x) ==
    IF x > 1 THEN x ELSE 1

Init ==
    /\ pc = "Uninitialized"
    /\ width = InitialSize
    /\ height = InitialSize
    /\ windowSize = <<>>
    /\ window = FALSE
    /\ reshapeFunc = "NULL"
    /\ displayFunc = "NULL"
    /\ version = 0
    /\ GLAD_GL_VERSION_2_0 = FALSE
    /\ out = <<>>
    /\ exitStatus = <<>>
    /\ queried = {}
    /\ viewport = <<0, 0, 0, 0>>
    /\ clearDepth = ClearDepthOne
    /\ clearColor = TransparentBlack
    /\ depthTest = FALSE
    /\ redisplay = FALSE
    /\ cleared = <<>>
    /\ frames = 0
    /\ lastEvent = "none"
    /\ prevEvent = "none"
    /\ lastArgs = <<>>
    /\ lastCalls = <<>>
    /\ flagRead = FALSE
    /\ dimReaders = {}
    /\ dimWriters = {}

glUnchanged == UNCHANGED <<viewport, clearDepth, clearColor, depthTest>>
callbackGhostUnchanged ==
    UNCHANGED <<cleared, frames, lastEvent, prevEvent, lastArgs, lastCalls>>

\* glutInit, glutInitDisplayMode, glutInitWindowSize(width, height),
\* glutCreateWindow("cookie"): the new window is due a first display
Initialize ==
    /\ pc = "Uninitialized"
    /\ windowSize' = <<width, height>>
    /\ dimReaders' = dimReaders \cup {"main"}
    /\ window' = TRUE
    /\ viewport' = <<0, 0, width, height>>
    /\ redisplay' = TRUE
    /\ pc' = "WindowCreated"
    /\ UNCHANGED <<width, height, reshapeFunc, displayFunc, version,
                   GLAD_GL_VERSION_2_0, out, exitStatus, queried, clearDepth,
                   clearColor, depthTest, flagRead, dimWriters>>
    /\ callbackGhostUnchanged

\* glutReshapeFunc(reshape); glutDisplayFunc(display)
RegisterCallbacks ==
    /\ pc = "WindowCreated"
    /\ reshapeFunc' = "reshape"
    /\ displayFunc' = "display"
    /\ pc' = "CallbacksRegistered"
    /\ UNCHANGED <<width, height, windowSize, window, version,
                   GLAD_GL_VERSION_2_0, out, exitStatus, queried, redisplay,
                   flagRead, dimReaders, dimWriters>>
    /\ glUnchanged
    /\ callbackGhostUnchanged

\* int version = gladLoadGLInternalLoader();
\* The loader returns v; it sets the capability flag to `flag` when it loaded
\* a version and leaves it clear when it failed.
LoadGLFunctions(v, flag) ==
    /\ pc = "CallbacksRegistered"
    /\ version' = v
    /\ GLAD_GL_VERSION_2_0' = (v # 0 /\ flag)
    /\ pc' = "FunctionsLoaded"
    /\ UNCHANGED <<width, height, windowSize, window, reshapeFunc, displayFunc,
                   out, exitStatus, queried, redisplay, flagRead, dimReaders,
                   dimWriters>>
    /\ glUnchanged
    /\ callbackGhostUnchanged

CheckLoadedNoExit ==
    /\ pc = "FunctionsLoaded"
    /\ IF version = 0
         THEN out' = Append(out, LoaderDiagnostic)
         ELSE UNCHANGED out
    /\ pc' = "LoaderOk"
    /\ UNCHANGED <<width, height, windowSize, window, reshapeFunc, displayFunc,
                   version, GLAD_GL_VERSION_2_0, exitStatus, queried, redisplay,
                   flagRead, dimReaders, dimWriters>>
    /\ glUnchanged
    /\ callbackGhostUnchanged
\* if(version == 0) { printf("Something went wrong!\n"); exit(-1); }
CheckLoaded ==
    /\ pc = "FunctionsLoaded"
    /\ IF version = 0
         THEN /\ out' = Append(out, LoaderDiagnostic)
              /\ exitStatus' = <<-1>>
              /\ pc' = "LoaderFailed"
         ELSE /\ pc' = "LoaderOk"
              /\ UNCHANGED <<out, exitStatus>>
    /\ UNCHANGED <<width, height, windowSize, window, reshapeFunc, displayFunc,
                   version, GLAD_GL_VERSION_2_0, queried, redisplay, flagRead,
                   dimReaders, dimWriters>>
    /\ glUnchanged
    /\ callbackGhostUnchanged

PrintVersionSkipped ==
    /\ pc = "LoaderOk"
    /\ pc' = "VersionPrinted"
    /\ UNCHANGED <<width, height, windowSize, window, reshapeFunc, displayFunc,
                   version, GLAD_GL_VERSION_2_0, out, exitStatus, queried,
                   redisplay, flagRead, dimReaders, dimWriters>>
    /\ glUnchanged
    /\ callbackGhostUnchanged
\* printf("OpenGL %d.%d\n", version / 10, version % 10);
PrintVersion ==
    /\ pc = "LoaderOk"
    /\ out' = Append(out, VersionLine(version))
    /\ pc' = "VersionPrinted"
    /\ UNCHANGED <<width, height, windowSize, window, reshapeFunc, displayFunc,
                   version, GLAD_GL_VERSION_2_0, exitStatus, queried,
                   redisplay, flagRead, dimReaders, dimWriters>>
    /\ glUnchanged
    /\ callbackGhostUnchanged

CheckCapabilityNoReturn ==
    /\ pc = "VersionPrinted"
    /\ flagRead' = TRUE
    /\ IF ~GLAD_GL_VERSION_2_0
         THEN out' = Append(out, CapabilityDiagnostic)
         ELSE UNCHANGED out
    /\ pc' = "CapabilityOk"
    /\ UNCHANGED <<width, height, windowSize, window, reshapeFunc, displayFunc,
                   version, GLAD_GL_VERSION_2_0, exitStatus, queried, redisplay,
                   dimReaders, dimWriters>>
    /\ glUnchanged
    /\ callbackGhostUnchanged
\* if (!GLAD_GL_VERSION_2_0) { printf("Your system ...\n"); return -1; }
CheckCapability ==
    /\ pc = "VersionPrinted"
    /\ flagRead' = TRUE
    /\ IF ~GLAD_GL_VERSION_2_0
         THEN /\ out' = Append(out, CapabilityDiagnostic)
              /\ exitStatus' = <<-1>>
              /\ pc' = "CapabilityFailed"
         ELSE /\ pc' = "CapabilityOk"
              /\ UNCHANGED <<out, exitStatus>>
    /\ UNCHANGED <<width, height, windowSize, window, reshapeFunc, displayFunc,
                   version, GLAD_GL_VERSION_2_0, queried, redisplay,
                   dimReaders, dimWriters>>
    /\ glUnchanged
    /\ callbackGhostUnchanged

\* printf("OpenGL %s, GLSL %s\n", glGetString(GL_VERSION),
\*        glGetString(GL_SHADING_LANGUAGE_VERSION));
ReportVersions ==
    /\ pc = "CapabilityOk"
    /\ queried' = queried \cup {"GL_VERSION", "GL_SHADING_LANGUAGE_VERSION"}
    /\ out' = Append(out, DriverLine)
    /\ pc' = "VersionsReported"
    /\ UNCHANGED <<width, height, windowSize, window, reshapeFunc, displayFunc,
                   version, GLAD_GL_VERSION_2_0, exitStatus, redisplay,
                   flagRead, dimReaders, dimWriters>>
    /\ glUnchanged
    /\ callbackGhostUnchanged

RunLoopReturns ==
    /\ pc = "VersionsReported"
    /\ pc' = "Returned"
    /\ exitStatus' = <<0>>
    /\ UNCHANGED <<width, height, windowSize, window, reshapeFunc, displayFunc,
                   version, GLAD_GL_VERSION_2_0, out, queried, redisplay,
                   flagRead, dimReaders, dimWriters>>
    /\ glUnchanged
    /\ callbackGhostUnchanged
\* glutMainLoop(): entered, and not returned from
RunLoop ==
    /\ pc = "VersionsReported"
    /\ pc' = "EventLoopRunning"
    /\ UNCHANGED <<width, height, windowSize, window, reshapeFunc, displayFunc,
                   version, GLAD_GL_VERSION_2_0, out, exitStatus, queried,
                   redisplay, flagRead, dimReaders, dimWriters>>
    /\ glUnchanged
    /\ callbackGhostUnchanged

DisplayCalls ==
    <<"glClearColor", "glClear", "glutSwapBuffers", "glutPostRedisplay">>

ReshapeCalls ==
    <<"glViewport", "glClearDepth", "glClearColor", "glEnable">>

DisplayClearFirst ==
    /\ pc = "EventLoopRunning"
    /\ displayFunc = "display"
    /\ redisplay
    /\ cleared' = <<[color |-> clearColor, depth |-> clearDepth,
                     bits |-> {"GL_COLOR_BUFFER_BIT", "GL_DEPTH_BUFFER_BIT"}]>>
    /\ clearColor' = Pink
    /\ frames' = (frames + 1) % FrameWrap
    /\ redisplay' = TRUE
    /\ lastEvent' = "display"
    /\ prevEvent' = lastEvent
    /\ lastCalls' = <<"glClear", "glClearColor", "glutSwapBuffers", "glutPostRedisplay">>
    /\ UNCHANGED <<width, height, viewport, clearDepth, depthTest, lastArgs,
                   dimReaders, dimWriters>>
    /\ UNCHANGED mainVars
DisplaySetsViewport ==
    /\ pc = "EventLoopRunning"
    /\ displayFunc = "display"
    /\ redisplay
    /\ viewport' = <<0, 0, width, height>>
    /\ dimReaders' = dimReaders \cup {"display"}
    /\ clearColor' = Pink
    /\ cleared' = <<[color |-> Pink, depth |-> clearDepth,
                     bits |-> {"GL_COLOR_BUFFER_BIT", "GL_DEPTH_BUFFER_BIT"}]>>
    /\ frames' = (frames + 1) % FrameWrap
    /\ redisplay' = TRUE
    /\ lastEvent' = "display"
    /\ prevEvent' = lastEvent
    /\ lastCalls' = <<"glViewport">> \o DisplayCalls
    /\ UNCHANGED <<width, height, clearDepth, depthTest, lastArgs, dimWriters>>
    /\ UNCHANGED mainVars
\* display(), dispatched by the event loop for the pending redisplay:
\*   glClearColor(1.0f, 0.2f, 0.7f, 1.0f);
\*   glClear(GL_COLOR_BUFFER_BIT | GL_DEPTH_BUFFER_BIT);   clears with the values just set
\*   glutSwapBuffers();
\*   glutPostRedisplay();
Display ==
    /\ pc = "EventLoopRunning"
    /\ displayFunc = "display"
    /\ redisplay
    /\ clearColor' = Pink
    /\ cleared' = <<[color |-> clearColor', depth |-> clearDepth,
                     bits |-> {"GL_COLOR_BUFFER_BIT", "GL_DEPTH_BUFFER_BIT"}]>>
    /\ frames' = (frames + 1) % FrameWrap
    /\ redisplay' = TRUE
    /\ lastEvent' = "display"
    /\ prevEvent' = lastEvent
    /\ lastCalls' = DisplayCalls
    /\ UNCHANGED <<width, height, viewport, clearDepth, depthTest, lastArgs,
                   dimReaders, dimWriters>>
    /\ UNCHANGED mainVars

ReshapeHeightFromWidth(w, h) ==
    /\ pc = "EventLoopRunning"
    /\ reshapeFunc = "reshape"
    /\ width' = Clamp(w)
    /\ height' = Clamp(w)
    /\ dimWriters' = dimWriters \cup {"reshape"}
    /\ viewport' = <<0, 0, width', height'>>
    /\ dimReaders' = dimReaders \cup {"reshape"}
    /\ clearDepth' = ClearDepthOne
    /\ clearColor' = TransparentBlack
    /\ depthTest' = TRUE
    /\ lastEvent' = "reshape"
    /\ prevEvent' = lastEvent
    /\ lastArgs' = <<w, h>>
    /\ lastCalls' = ReshapeCalls
    /\ UNCHANGED <<redisplay, cleared, frames>>
    /\ UNCHANGED mainVars
ReshapeRawViewport(w, h) ==
    /\ pc = "EventLoopRunning"
    /\ reshapeFunc = "reshape"
    /\ width' = Clamp(w)
    /\ height' = Clamp(h)
    /\ dimWriters' = dimWriters \cup {"reshape"}
    /\ viewport' = <<0, 0, w, h>>
    /\ dimReaders' = dimReaders
    /\ clearDepth' = ClearDepthOne
    /\ clearColor' = TransparentBlack
    /\ depthTest' = TRUE
    /\ lastEvent' = "reshape"
    /\ prevEvent' = lastEvent
    /\ lastArgs' = <<w, h>>
    /\ lastCalls' = ReshapeCalls
    /\ UNCHANGED <<redisplay, cleared, frames>>
    /\ UNCHANGED mainVars
\* reshape(w, h), dispatched by the event loop:
\*   width = w > 1 ? w : 1;  height = h > 1 ? h : 1;
\*   glViewport(0, 0, width, height);
\*   glClearDepth(1.0);  glClearColor(0.0f, 0.0f, 0.0f, 0.0f);
\*   glEnable(GL_DEPTH_TEST);
Reshape(w, h) ==
    /\ pc = "EventLoopRunning"
    /\ reshapeFunc = "reshape"
    /\ width' = Clamp(w)
    /\ height' = Clamp(h)
    /\ dimWriters' = dimWriters \cup {"reshape"}
    /\ viewport' = <<0, 0, width', height'>>
    /\ dimReaders' = dimReaders \cup {"reshape"}
    /\ clearDepth' = ClearDepthOne
    /\ clearColor' = TransparentBlack
    /\ depthTest' = TRUE
    /\ lastEvent' = "reshape"
    /\ prevEvent' = lastEvent
    /\ lastArgs' = <<w, h>>
    /\ lastCalls' = ReshapeCalls
    /\ UNCHANGED <<redisplay, cleared, frames>>
    /\ UNCHANGED mainVars

Next ==
    \/ Initialize
    \/ RegisterCallbacks
    \/ \E v \in Versions, flag \in BOOLEAN : LoadGLFunctions(v, flag)
    \/ CheckLoaded
    \/ PrintVersion
    \/ CheckCapability
    \/ ReportVersions
    \/ RunLoop
    \/ Display
    \/ \E w \in Dims, h \in Dims : Reshape(w, h)

Spec == Init /\ [][Next]_vars

\* The event loop serves a pending redisplay on each of its iterations.
FairSpec == Spec /\ WF_vars(Display)

(***************************************************************************)
(* Vocabulary of the properties.                                           *)
(***************************************************************************)
MaxOf(a, b) == IF a >= b THEN a ELSE b

HasLine(f) == \E i \in DOMAIN out : out[i].fmt = f

HasVersionLine == HasLine("OpenGL %d.%d")

\* gladLoadGLInternalLoader has returned
Loaded == pc \notin {"Uninitialized", "WindowCreated", "CallbacksRegistered"}

\* main has ended, by exit or by return
Ended == exitStatus # <<>>

\* The states of the documented state machine, as sets of positions of main.
Phase(p) ==
    CASE p \in {"WindowCreated", "CallbacksRegistered"} -> "WindowCreated"
      [] p \in {"FunctionsLoaded", "LoaderOk", "VersionPrinted"} -> "FunctionsLoaded"
      [] p \in {"CapabilityOk", "VersionsReported"} -> "CapabilityOk"
      [] OTHER -> p

PhaseEdges ==
    { <<"Uninitialized", "WindowCreated">>,
      <<"WindowCreated", "FunctionsLoaded">>,
      <<"FunctionsLoaded", "CapabilityOk">>,
      <<"FunctionsLoaded", "CapabilityFailed">>,
      <<"FunctionsLoaded", "LoaderFailed">>,
      <<"CapabilityOk", "EventLoopRunning">> }

(***************************************************************************)
(* C1: in every reachable state the stored width and the stored height     *)
(* are both at least 1, whatever arguments the callbacks were given.       *)
(***************************************************************************)
C1_DimensionsAtLeastOne ==
    /\ width >= 1
    /\ height >= 1

C1_Witness ==
    /\ lastEvent = "display"
    /\ prevEvent = "reshape"
    /\ lastArgs[1] < 0
    /\ lastArgs[2] = 0
    /\ width = 1
    /\ height = 1

(***************************************************************************)
(* C2: after reshape(w, h) the stored width is max(w, 1) and the stored    *)
(* height is max(h, 1), each clamped independently of the other.           *)
(***************************************************************************)
C2_ResizeStoresMax ==
    lastEvent = "reshape" =>
        /\ width = MaxOf(lastArgs[1], 1)
        /\ height = MaxOf(lastArgs[2], 1)
        /\ lastArgs[1] >= 1 => width = lastArgs[1]
        /\ lastArgs[1] <= 0 => width = 1
        /\ lastArgs[2] >= 1 => height = lastArgs[2]
        /\ lastArgs[2] <= 0 => height = 1

C2_Witness ==
    /\ lastEvent = "reshape"
    /\ lastArgs = <<-1, 2>>
    /\ width = 1
    /\ height = 2

(***************************************************************************)
(* C3: when the loader returned 0 the program prints only "Something went  *)
(* wrong!" and exits with a nonzero status: no version line, no capability *)
(* diagnostic, the capability flag is never read, no callback is           *)
(* dispatched, and nothing runs after the exit.                            *)
(***************************************************************************)
C3_LoaderFailureStopsEarly ==
    (Loaded /\ version = 0) =>
        /\ pc \in {"FunctionsLoaded", "LoaderFailed"}
        /\ pc = "FunctionsLoaded" => out = <<>> /\ ~Ended
        /\ pc = "LoaderFailed" =>
              /\ out = <<LoaderDiagnostic>>
              /\ Ended
              /\ exitStatus[1] # 0
              /\ ~ENABLED Next
        /\ ~HasVersionLine
        /\ ~HasLine(CapabilityDiagnostic.fmt)
        /\ ~flagRead
        /\ lastEvent = "none"

C3_Witness ==
    /\ pc = "LoaderFailed"
    /\ version = 0
    /\ out = <<LoaderDiagnostic>>

(***************************************************************************)
(* C4: when the loader returned a nonzero version and the OpenGL 2.0       *)
(* capability flag is false, the program prints the capability diagnostic  *)
(* and main returns a nonzero status; the event loop is never entered and  *)
(* the driver strings are neither queried nor printed.                     *)
(***************************************************************************)
C4_CapabilityFailureStops ==
    (Loaded /\ version # 0 /\ ~GLAD_GL_VERSION_2_0) =>
        /\ pc \in {"FunctionsLoaded", "LoaderOk", "VersionPrinted", "CapabilityFailed"}
        /\ pc = "CapabilityFailed" <=> flagRead
        /\ pc = "CapabilityFailed" =>
              /\ out[Len(out)] = CapabilityDiagnostic
              /\ Ended
              /\ exitStatus[1] # 0
              /\ ~ENABLED Next
        /\ pc # "CapabilityFailed" => ~Ended /\ ~HasLine(CapabilityDiagnostic.fmt)
        /\ queried = {}
        /\ ~HasLine(DriverLine.fmt)
        /\ lastEvent = "none"

C4_Witness ==
    /\ pc = "CapabilityFailed"
    /\ version >= 20
    /\ ~GLAD_GL_VERSION_2_0
    /\ HasLine(CapabilityDiagnostic.fmt)

(***************************************************************************)
(* C5, as claimed: a run that ends in the capability failure has printed   *)
(* no "OpenGL <major>.<minor>" line.                                       *)
(***************************************************************************)
C5_Original ==
    pc = "CapabilityFailed" => ~HasVersionLine

(***************************************************************************)
(* C5, amended: the "OpenGL <major>.<minor>" line is printed on every run  *)
(* where the loader returned a nonzero version, before the capability flag *)
(* is read and whatever its value; a run that ends in the capability       *)
(* failure has printed the version line and then the capability            *)
(* diagnostic.  Only the driver strings line is limited to runs that pass  *)
(* the capability check.                                                   *)
(***************************************************************************)
C5_VersionLineBeforeCheck ==
    /\ HasVersionLine <=> (Loaded /\ version # 0 /\ pc \notin {"FunctionsLoaded", "LoaderOk"})
    /\ pc = "VersionPrinted" => HasVersionLine /\ ~flagRead
    /\ pc = "CapabilityFailed" => out = <<VersionLine(version), CapabilityDiagnostic>>
    /\ HasLine(DriverLine.fmt) =>
          /\ GLAD_GL_VERSION_2_0
          /\ flagRead
          /\ out = <<VersionLine(version), DriverLine>>

C5_Witness ==
    /\ pc = "CapabilityFailed"
    /\ ~GLAD_GL_VERSION_2_0
    /\ HasVersionLine
    /\ Len(out) = 2

(***************************************************************************)
(* C6: every run follows Uninitialized -> WindowCreated -> FunctionsLoaded *)
(* -> (CapabilityOk -> EventLoopRunning | CapabilityFailed | LoaderFailed):*)
(* the loader runs only once the window exists and both callbacks are      *)
(* registered, the event loop is entered only after a nonzero version and  *)
(* a true capability flag, callbacks are dispatched only in                *)
(* EventLoopRunning, and EventLoopRunning is never left, so main never     *)
(* ends with status 0.                                                     *)
(***************************************************************************)
C6_StateInvariant ==
    /\ Loaded => window /\ reshapeFunc = "reshape" /\ displayFunc = "display"
    /\ pc = "EventLoopRunning" =>
          /\ version # 0
          /\ GLAD_GL_VERSION_2_0
          /\ flagRead
          /\ ~Ended
    /\ lastEvent # "none" => pc = "EventLoopRunning"
    /\ Ended => exitStatus[1] # 0 /\ pc \in {"LoaderFailed", "CapabilityFailed"}

C6_StateMachine ==
    /\ []C6_StateInvariant
    /\ [][Phase(pc') = Phase(pc) \/ <<Phase(pc), Phase(pc')>> \in PhaseEdges]_vars
    /\ [][pc = "EventLoopRunning" => pc' = "EventLoopRunning"]_vars
    /\ [][lastEvent' # lastEvent \/ frames' # frames \/ lastArgs' # lastArgs
            => pc = "EventLoopRunning"]_vars

C6_Witness ==
    /\ pc = "EventLoopRunning"
    /\ lastEvent = "reshape"
    /\ prevEvent = "display"
    /\ version = 33

(***************************************************************************)
(* C7: whatever the context state was before, reshape leaves depth testing *)
(* enabled, clear depth 1.0, clear color (0,0,0,0) and the viewport at     *)
(* (0, 0, width, height) with the clamped values, never the raw arguments. *)
(***************************************************************************)
C7_ResizeContextState ==
    lastEvent = "reshape" =>
        /\ depthTest
        /\ clearDepth = ClearDepthOne
        /\ clearColor = TransparentBlack
        /\ viewport = <<0, 0, width, height>>
        /\ viewport = <<0, 0, MaxOf(lastArgs[1], 1), MaxOf(lastArgs[2], 1)>>
        /\ lastCalls = ReshapeCalls

C7_Witness ==
    /\ lastEvent = "reshape"
    /\ prevEvent = "display"
    /\ lastArgs = <<0, -2>>
    /\ viewport = <<0, 0, 1, 1>>
    /\ clearColor = TransparentBlack

(***************************************************************************)
(* C8, as claimed: width and height are written only by reshape and read   *)
(* only by reshape.                                                        *)
(***************************************************************************)
C8_Original ==
    /\ dimWriters \subseteq {"reshape"}
    /\ dimReaders \subseteq {"reshape"}

(***************************************************************************)
(* C8, amended: width and height are written only by reshape; they are     *)
(* read by reshape (for the viewport) and by main, which hands their       *)
(* initial values to glutInitWindowSize; no other step reads or writes     *)
(* them, and display leaves them unchanged.                                *)
(***************************************************************************)
C8_StateInvariant ==
    /\ dimWriters \subseteq {"reshape"}
    /\ dimReaders \subseteq {"main", "reshape"}
    /\ window => "main" \in dimReaders /\ windowSize = <<InitialSize, InitialSize>>
    /\ dimWriters = {} => width = InitialSize /\ height = InitialSize

C8_DimensionsFrame ==
    /\ []C8_StateInvariant
    /\ [][(width' # width \/ height' # height) =>
            /\ lastEvent' = "reshape"
            /\ <<width', height'>> = <<viewport'[3], viewport'[4]>>
            /\ pc = "EventLoopRunning"]_vars
    /\ [][pc' # pc => UNCHANGED <<width, height, dimWriters>>]_vars
    /\ [][frames' # frames => UNCHANGED <<width, height, dimReaders, dimWriters>>]_vars

C8_Witness ==
    /\ dimReaders = {"main", "reshape"}
    /\ dimWriters = {"reshape"}
    /\ lastEvent = "display"
    /\ width = 2
    /\ windowSize = <<InitialSize, InitialSize>>

(***************************************************************************)
(* C9: every display sets the clear color to (1.0, 0.2, 0.7, 1.0), clears  *)
(* the color and depth buffers, swaps and posts a redisplay, in that       *)
(* order; every clear uses that color even right after a reshape; a        *)
(* redisplay is always pending in the event loop, and under fair dispatch  *)
(* display runs again and again.                                           *)
(***************************************************************************)
C9_StateInvariant ==
    /\ lastEvent = "display" =>
          /\ clearColor = Pink
          /\ lastCalls = DisplayCalls
          /\ Len(cleared) = 1
    /\ \A i \in DOMAIN cleared :
          /\ cleared[i].color = Pink
          /\ cleared[i].bits = {"GL_COLOR_BUFFER_BIT", "GL_DEPTH_BUFFER_BIT"}
    /\ pc = "EventLoopRunning" => redisplay

C9_DisplayForever ==
    /\ []C9_StateInvariant
    /\ \A k \in 0 .. (FrameWrap - 1) :
          (pc = "EventLoopRunning" /\ frames = k) ~> (frames = (k + 1) % FrameWrap)

C9_Witness ==
    /\ lastEvent = "display"
    /\ prevEvent = "reshape"
    /\ frames = 0
    /\ cleared # <<>>
    /\ clearColor = Pink

(***************************************************************************)
(* C10: the version line prints version / 10 and version % 10; for every   *)
(* version = major*10 + minor with 0 <= minor <= 9 the printed pair is     *)
(* (major, minor), and 33 prints as 3.3.                                   *)
(***************************************************************************)
C10_VersionDecoding ==
    HasVersionLine =>
        /\ out[1].fmt = "OpenGL %d.%d"
        /\ \E major \in 0 .. MaxVersion, minor \in 0 .. 9 :
              /\ version = major * 10 + minor
              /\ out[1].args = <<major, minor>>
        /\ \A major \in 0 .. MaxVersion, minor \in 0 .. 9 :
              version = major * 10 + minor => out[1].args = <<major, minor>>
        /\ version = 33 => out[1].args = <<3, 3>>

C10_Witness ==
    /\ version = 33
    /\ HasVersionLine
    /\ out[1].args = <<3, 3>>

====
